---- MODULE Spec2Model ----
(***************************************************************************)
(* load_dask (src/load_dask/load_dask.ipynb): load a dataset into an       *)
(* existing dask cluster, optionally persist and (re)publish it under      *)
(* dask_key, write the scheduler file and log it as an artifact.           *)
(*                                                                         *)
(* The cluster's published-dataset registry and the local file system are  *)
(* shared by all invocations; everything else is local to one invocation.  *)
(* The collaborators (dask Client, DataItem, MLClientCtx) are modelled by   *)
(* their effect on that state: publish_dataset raises KeyError on a name    *)
(* that is already published, unpublish_dataset raises KeyError on a name   *)
(* that is not, write_scheduler_file opens its file with mode "w".          *)
(***************************************************************************)
EXTENDS Naturals, Sequences, FiniteSets

VARIABLES
    datasets,   \* dask_client.datasets: the set of <<name, dataframe>> registrations
    files,      \* local files: path -> sequence of JSON documents (<<>>: no such file)
    artifacts,  \* per invocation: the artifacts logged to its context
    pc,         \* per invocation: position in load_dask
    context,    \* per invocation: [has_client |-> hasattr(context, "dask_client")]
    args,       \* per invocation: the arguments of load_dask
    df,         \* per invocation: the local variable df
    raised,     \* per invocation: the exception that ended it, or "none"
    calls,      \* per invocation: the collaborator calls it has made, in order
    before,     \* dask_client.datasets when the latest invocation started
    runs        \* number of invocations started so far

vars == <<datasets, files, artifacts, pc, context, args, df, raised, calls, before, runs>>

\* Bound on the number of invocations of load_dask in one behaviour.
MaxRuns == 2

\* The invocations that may overlap, and the one that runs alone in SpecSeq.
Procs == {"a", "b"}
Solo == "a"

\* dataset names, data sources and scheduler keys the invocations draw from
Names == {"dask_key", "other_key"}
Sources == {"iris", "wine"}
SchedulerKeys == {"scheduler"}
OldSource == "old"

NoDf == [src |-> "none", persisted |-> FALSE]

\* src_data.as_df(df_module=dd): a lazy dask dataframe over the source
as_df(src) == [src |-> src, persisted |-> FALSE]

\* mutant: df is published as loaded, never materialized
persist_NotMaterialized(d) == d

\* dask_client.persist(df): the same data, materialized on the cluster
persist(d) == [d EXCEPT !.persisted = TRUE]

\* scheduler_key+".json"
SchedulerFile(scheduler_key) == scheduler_key \o ".json"

Paths == {SchedulerFile(k) : k \in SchedulerKeys}

\* what write_scheduler_file dumps: the scheduler's connection info
SchedulerInfo == "scheduler_info"

\* dask_key in dask_client.datasets
Registered(reg, name) == \E r \in reg : r[1] = name

\* dask_client.datasets[name], as the set of dataframes registered under name
Lookup(reg, name) == {r[2] : r \in {q \in reg : q[1] = name}}

PublishedNames(reg) == {r[1] : r \in reg}

\* the registries a cluster can hold before load_dask runs: at most one
\* dataset per name
InitialRegistries ==
    {{<<n, persist(as_df(OldSource))>> : n \in S} : S \in SUBSET Names}

Arguments ==
    [src_data : Sources, dask_key : Names, dask_persist : BOOLEAN,
     refresh_data : BOOLEAN, scheduler_key : SchedulerKeys]

Resting == {"idle", "done", "failed"}

Init ==
    /\ datasets \in InitialRegistries
    /\ files = [f \in Paths |-> <<>>]
    /\ artifacts = [p \in Procs |-> {}]
    /\ pc = [p \in Procs |-> "idle"]
    /\ context = [p \in Procs |-> [has_client |-> TRUE]]
    /\ args = [p \in Procs |-> CHOOSE a \in Arguments : TRUE]
    /\ df = [p \in Procs |-> NoDf]
    /\ raised = [p \in Procs |-> "none"]
    /\ calls = [p \in Procs |-> <<>>]
    /\ before = datasets
    /\ runs = 0

\* raise: the exception propagates to the caller and the invocation is over
Raise(p, exc) ==
    /\ pc' = [pc EXCEPT ![p] = "failed"]
    /\ raised' = [raised EXCEPT ![p] = exc]

Goto(p, label) ==
    /\ pc' = [pc EXCEPT ![p] = label]
    /\ UNCHANGED raised

Call(p, name) == calls' = [calls EXCEPT ![p] = Append(@, name)]

\* fn.run(NewTask(...), handler=load_dask, inputs={"src_data": ...}): a new
\* invocation with its own context and arguments
Invoke(p) ==
    /\ pc[p] \in Resting
    /\ runs < MaxRuns
    /\ runs' = runs + 1
    /\ \E c \in BOOLEAN, a \in Arguments :
          /\ context' = [context EXCEPT ![p] = [has_client |-> c]]
          /\ args' = [args EXCEPT ![p] = a]
    /\ pc' = [pc EXCEPT ![p] = "check_client"]
    /\ raised' = [raised EXCEPT ![p] = "none"]
    /\ df' = [df EXCEPT ![p] = NoDf]
    /\ calls' = [calls EXCEPT ![p] = <<>>]
    /\ artifacts' = [artifacts EXCEPT ![p] = {}]
    /\ before' = datasets
    /\ UNCHANGED <<datasets, files>>

\* mutant: a missing client is not an error, the invocation goes on
CheckClient_FallsThrough(p) ==
    /\ pc[p] = "check_client"
    /\ Goto(p, "as_df")
    /\ UNCHANGED <<datasets, files, artifacts, context, args, df, calls, before, runs>>

\* if hasattr(context, "dask_client"): ... else: raise Exception(...)
CheckClient(p) ==
    /\ pc[p] = "check_client"
    /\ IF context[p].has_client
          THEN Goto(p, "as_df")
          ELSE Raise(p, "NoClient")
    /\ UNCHANGED <<datasets, files, artifacts, context, args, df, calls, before, runs>>

\* mutant: dask_persist is ignored, the data is always persisted and published
AfterLoad_AlwaysPersists(a) == "persist"

\* if dask_persist: (where the invocation goes once df is loaded)
AfterLoad(a) == IF a.dask_persist THEN "persist" ELSE "write"

\* df = src_data.as_df(df_module=dd)
LoadDf(p) ==
    /\ pc[p] = "as_df"
    /\ Call(p, "as_df")
    /\ \/ /\ df' = [df EXCEPT ![p] = as_df(args[p].src_data)]
          /\ Goto(p, AfterLoad(args[p]))
       \/ /\ Raise(p, "LoadError")
          /\ UNCHANGED df
    /\ UNCHANGED <<datasets, files, artifacts, context, args, before, runs>>

\* mutant: the old registration is removed before persist is attempted
Persist_AfterUnpublish(p) ==
    /\ pc[p] = "persist"
    /\ Call(p, "persist")
    /\ datasets' = {r \in datasets : r[1] # args[p].dask_key}
    /\ \/ /\ df' = [df EXCEPT ![p] = persist(df[p])]
          /\ Goto(p, "publish")
       \/ /\ Raise(p, "PersistError")
          /\ UNCHANGED df
    /\ UNCHANGED <<files, artifacts, context, args, before, runs>>

\* df = dask_client.persist(df)
Persist(p) ==
    /\ pc[p] = "persist"
    /\ Call(p, "persist")
    /\ \/ /\ df' = [df EXCEPT ![p] = persist(df[p])]
          /\ Goto(p, "check_datasets")
       \/ /\ Raise(p, "PersistError")
          /\ UNCHANGED df
    /\ UNCHANGED <<datasets, files, artifacts, context, args, before, runs>>

\* mutant: the membership test is inverted
NeedsUnpublish_Negated(reg, a) == reg # {} /\ ~Registered(reg, a.dask_key)

\* mutant: the old registration is never removed
NeedsUnpublish_Never(reg, a) == FALSE

\* mutant: only the emptiness of the registry is tested
NeedsUnpublish_OnlyNonEmpty(reg, a) == reg # {}

\* if dask_client.datasets and dask_key in dask_client.datasets:
\* (the two reads of the registry are taken as one: an empty first read is a
\* membership test that fails at that moment, otherwise the second decides)
NeedsUnpublish(reg, a) == reg # {} /\ Registered(reg, a.dask_key)

CheckDatasets(p) ==
    /\ pc[p] = "check_datasets"
    /\ IF NeedsUnpublish(datasets, args[p])
          THEN Goto(p, "unpublish")
          ELSE Goto(p, "publish")
    /\ UNCHANGED <<datasets, files, artifacts, context, args, df, calls, before, runs>>

\* dask_client.unpublish_dataset(dask_key)
Unpublish(p) ==
    /\ pc[p] = "unpublish"
    /\ Call(p, "unpublish_dataset")
    /\ IF Registered(datasets, args[p].dask_key)
          THEN /\ datasets' = {r \in datasets : r[1] # args[p].dask_key}
               /\ Goto(p, "publish")
          ELSE /\ Raise(p, "KeyError")
               /\ UNCHANGED datasets
    /\ UNCHANGED <<files, artifacts, context, args, df, before, runs>>

\* mutant: the default name is used whatever dask_key is
PublishName_Default(a) == "dask_key"

\* name=dask_key
PublishName(a) == a.dask_key

\* dask_client.publish_dataset(df, name=dask_key); the cluster or the job can
\* also be lost before the call returns
Publish(p) ==
    /\ pc[p] = "publish"
    /\ Call(p, "publish_dataset")
    /\ \/ IF Registered(datasets, PublishName(args[p]))
             THEN /\ Raise(p, "KeyError")
                  /\ UNCHANGED datasets
             ELSE /\ datasets' = datasets \cup {<<PublishName(args[p]), df[p]>>}
                  /\ Goto(p, "write")
       \/ /\ Raise(p, "Interrupted")
          /\ UNCHANGED datasets
    /\ UNCHANGED <<files, artifacts, context, args, df, before, runs>>

\* mutant: the file is opened for append
Written_Merged(old) == Append(old, SchedulerInfo)

\* the file after write_scheduler_file: opened with "w", one JSON document
Written(old) == <<SchedulerInfo>>

\* if context: context.dask_client = dask_client
\* dask_client.write_scheduler_file(scheduler_key+".json")
WriteSchedulerFile(p) ==
    /\ pc[p] = "write"
    /\ Call(p, "write_scheduler_file")
    /\ files' = [files EXCEPT ![SchedulerFile(args[p].scheduler_key)] = Written(@)]
    /\ context' = [context EXCEPT ![p].has_client = TRUE]
    /\ Goto(p, "log")
    /\ UNCHANGED <<datasets, artifacts, args, df, before, runs>>

\* the artifact of context.log_artifact(scheduler_key, local_path=scheduler_key+".json")
Artifact(a) == [key |-> a.scheduler_key, local_path |-> SchedulerFile(a.scheduler_key)]

LogArtifact(p) ==
    /\ pc[p] = "log"
    /\ Call(p, "log_artifact")
    /\ artifacts' = [artifacts EXCEPT ![p] = @ \cup {Artifact(args[p])}]
    /\ Goto(p, "done")
    /\ UNCHANGED <<datasets, files, context, args, df, before, runs>>

load_dask(p) ==
    \/ CheckClient(p)
    \/ LoadDf(p)
    \/ Persist(p)
    \/ CheckDatasets(p)
    \/ Unpublish(p)
    \/ Publish(p)
    \/ WriteSchedulerFile(p)
    \/ LogArtifact(p)

\* invocations that may overlap on one cluster
Next == \E p \in Procs : Invoke(p) \/ load_dask(p)

Spec == Init /\ [][Next]_vars

\* one invocation at a time, one after the other
NextSeq == Invoke(Solo) \/ load_dask(Solo)

SpecSeq == Init /\ [][NextSeq]_vars

(***************************************************************************)
(* Properties.  Those of overlapping invocations are stated of Spec, those  *)
(* of one invocation after the other of SpecSeq, where `before` is the      *)
(* registry the running invocation found.                                   *)
(***************************************************************************)

\* invocation p takes this step
Stepped(p) == pc'[p] # pc[p]

Terminated(p) == pc[p] \in {"done", "failed"}

Registrations(reg, name) == {r \in reg : r[1] = name}

OtherNamesKept(name) ==
    \A n \in Names \ {name} : Registrations(datasets, n) = Registrations(before, n)

\* C1: an invocation whose context has no dask_client ends in an error at its
\* first step and before any side effect: as_df is not called, the registry
\* and the files are as they were, and nothing is logged.
C1_NoClientFailsBeforeAnySideEffect ==
    [][\A p \in Procs :
          (~context[p].has_client /\ pc[p] \notin Resting /\ Stepped(p)) =>
              /\ pc'[p] = "failed"
              /\ raised'[p] = "NoClient"
              /\ calls'[p] = <<>>
              /\ df'[p] = NoDf
              /\ datasets' = datasets
              /\ files' = files
              /\ artifacts'[p] = {}]_vars

C1_Witness ==
    \E p \in Procs :
        /\ pc[p] = "failed"
        /\ raised[p] = "NoClient"
        /\ Registered(datasets, args[p].dask_key)

\* C2: a completed invocation with dask_persist on a name that was registered
\* leaves exactly one registration under the name, having unpublished the old
\* one before publishing the new one; no invocation that runs alone ends in
\* the naming collision; and run again on its own result it leaves the
\* registry as it found it.
C2_ExactlyOneRegistrationAfterRepublish ==
    /\ raised[Solo] # "KeyError"
    /\ (pc[Solo] = "done" /\ args[Solo].dask_persist
            /\ Registered(before, args[Solo].dask_key)) =>
          /\ Cardinality(Registrations(datasets, args[Solo].dask_key)) = 1
          /\ calls[Solo] = <<"as_df", "persist", "unpublish_dataset",
                             "publish_dataset", "write_scheduler_file",
                             "log_artifact">>
          /\ (Lookup(before, args[Solo].dask_key)
                  = {persist(as_df(args[Solo].src_data))} => datasets = before)

C2_Witness ==
    /\ pc[Solo] = "done"
    /\ args[Solo].dask_persist
    /\ runs = 2
    /\ Lookup(before, args[Solo].dask_key) = {persist(as_df(args[Solo].src_data))}
    /\ datasets = before

\* C3: after a completed invocation with dask_persist, dask_key resolves to
\* the persisted dataframe of that invocation's src_data and to nothing else,
\* whatever was registered under it before.
C3_NameResolvesToLoadedDataset ==
    (pc[Solo] = "done" /\ args[Solo].dask_persist) =>
        Lookup(datasets, args[Solo].dask_key)
            = {[src |-> args[Solo].src_data, persisted |-> TRUE]}

C3_Witness ==
    /\ pc[Solo] = "done"
    /\ args[Solo].dask_persist
    /\ \E s \in Sources \ {args[Solo].src_data} :
          Lookup(before, args[Solo].dask_key) = {[src |-> s, persisted |-> TRUE]}
    /\ Lookup(datasets, args[Solo].dask_key)
          = {[src |-> args[Solo].src_data, persisted |-> TRUE]}

\* C4: no step of an invocation with dask_persist=False changes the registry,
\* and it calls neither unpublish_dataset nor publish_dataset.
C4_NoPersistLeavesRegistry ==
    [][\A p \in Procs :
          (~args[p].dask_persist /\ pc[p] \notin Resting /\ Stepped(p)) =>
              /\ datasets' = datasets
              /\ \A i \in 1..Len(calls'[p]) :
                    calls'[p][i] \notin {"persist", "unpublish_dataset", "publish_dataset"}]_vars

C4_Witness ==
    \E p \in Procs :
        /\ pc[p] = "done"
        /\ ~args[p].dask_persist
        /\ Registered(datasets, args[p].dask_key)

C6_RefreshDataFalseKeepsData ==
    (pc[Solo] # "idle" /\ context[Solo].has_client /\ args[Solo].dask_persist
        /\ ~args[Solo].refresh_data /\ Registered(before, args[Solo].dask_key)) =>
        /\ pc[Solo] # "done"
        /\ Lookup(datasets, args[Solo].dask_key) = Lookup(before, args[Solo].dask_key)

\* C7: an invocation interrupted after unpublish_dataset and before
\* publish_dataset returns leaves the name unregistered and every other
\* registration as it was, and has neither written nor logged the scheduler
\* file.
C7_InterruptedRepublishLeavesNameUnregistered ==
    (raised[Solo] = "Interrupted" /\ Registered(before, args[Solo].dask_key)) =>
        /\ pc[Solo] = "failed"
        /\ ~Registered(datasets, args[Solo].dask_key)
        /\ datasets = before \ Registrations(before, args[Solo].dask_key)
        /\ calls[Solo] = <<"as_df", "persist", "unpublish_dataset", "publish_dataset">>
        /\ artifacts[Solo] = {}

C7_Witness ==
    /\ raised[Solo] = "Interrupted"
    /\ Registered(before, args[Solo].dask_key)
    /\ ~Registered(datasets, args[Solo].dask_key)

\* C8: when as_df or persist fails the invocation ends there: the registry is
\* as the invocation found it, and neither unpublish, publish, the write of
\* the scheduler file nor log_artifact has been called.
C8_LoadOrPersistFailureChangesNothing ==
    (raised[Solo] \in {"LoadError", "PersistError"}) =>
        /\ pc[Solo] = "failed"
        /\ datasets = before
        /\ calls[Solo] \in {<<"as_df">>, <<"as_df", "persist">>}
        /\ artifacts[Solo] = {}

C8_Witness ==
    /\ raised[Solo] = "PersistError"
    /\ Registered(before, args[Solo].dask_key)
    /\ Lookup(datasets, args[Solo].dask_key) = {[src |-> OldSource, persisted |-> TRUE]}

Racing(p, q) ==
    /\ p # q
    /\ pc[p] # "idle" /\ pc[q] # "idle"
    /\ args[p].dask_persist /\ args[q].dask_persist
    /\ args[p].dask_key = args[q].dask_key

\* neither lost its client, its load, its persist nor the cluster
Unhindered(p) == context[p].has_client /\ raised[p] \in {"none", "KeyError"}

\* C10 as stated: of two invocations that persist under the same name neither
\* ends in the naming collision, and when both are over exactly one dataset is
\* registered under the name.
C10_NoCollisionUnderAnyInterleaving ==
    \A p, q \in Procs :
        (Racing(p, q) /\ Unhindered(p) /\ Unhindered(q)) =>
            /\ raised[p] # "KeyError"
            /\ (Terminated(p) /\ Terminated(q)) =>
                  Cardinality(Registrations(datasets, args[p].dask_key)) = 1

\* C10 amended: of two invocations that persist under the same name one can
\* end in the naming collision, but no name ever holds two datasets, and when
\* both are over exactly one dataset is registered under the name, that of an
\* invocation that completed.
C10_OneRegistrationDespiteCollision ==
    /\ \A n \in Names : Cardinality(Registrations(datasets, n)) <= 1
    /\ \A p, q \in Procs :
          (Racing(p, q) /\ Unhindered(p) /\ Unhindered(q)
              /\ Terminated(p) /\ Terminated(q)) =>
                /\ Cardinality(Registrations(datasets, args[p].dask_key)) = 1
                /\ \E r \in {p, q} :
                      /\ pc[r] = "done"
                      /\ Lookup(datasets, args[p].dask_key) = {df[r]}

C10_Witness ==
    \E p, q \in Procs :
        /\ Racing(p, q)
        /\ raised[p] = "KeyError"
        /\ pc[q] = "done"
        /\ Lookup(datasets, args[p].dask_key) = {df[q]}

====
